---- MODULE Spec2Model ----
(***************************************************************************)
(* A model of @pup/api-client.                                             *)
(*                                                                         *)
(*   - RestClient (src/src/rest.ts): the authenticated request engine,     *)
(*     RestClient.fetch with its timeout timer, retry loop and exponential *)
(*     backoff, and refreshApiToken.                                       *)
(*   - PupRestClient (src/unnamed/part_002, the ws based pup.ts): the      *)
(*     event stream supervisor set up by setupEventStream, and close().    *)
(*                                                                         *)
(* JavaScript values are modelled as follows.  An object is the set of its *)
(* <<key, value>> pairs ({} is the empty object).  An optional value (one  *)
(* that may be undefined) is a set with at most one element ({} is         *)
(* undefined).  Every await of the code is a position ("pc") of the call;  *)
(* the code between two awaits runs as one step, as on the event loop.     *)
(***************************************************************************)
EXTENDS Integers, Sequences, FiniteSets, TLC

\* ------------------------------------------------------------------ bounds
\* Largest retry budget (this.retries) a client is constructed with.
MaxRetries == 2

\* The fetch calls that may exist on the one client (their identities).
Calls == {1, 2}

\* ------------------------------------------------------- program constants
\* rest.ts:154  initialRetryDelay = 200
DefaultInitialRetryDelay == 200

\* The initialRetryDelay arguments tried: the default and one other value.
InitialRetryDelays == {DefaultInitialRetryDelay, 50}

\* Bearer tokens: the one given to the constructor and the ones refreshed to.
InitialToken == "t0"
Tokens == {"t0", "t1"}

\* HTTP statuses a server answers with, and response bodies (as text).
Statuses == {200, 404, 500}
BodyEmpty == ""
BodyErrorJson == "{\"error\":\"boom\"}"
BodyPlainJson == "{\"msg\":\"hi\"}"
Bodies == {BodyEmpty, BodyErrorJson, BodyPlainJson}

\* ------------------------------------------------------- JavaScript values
\* The empty object literal {}.
EmptyObject == {}

\* obj[key] as an optional value.
Get(obj, key) == {p[2] : p \in {q \in obj : q[1] = key}}

\* { ...a, ...b }: the keys of b replace those of a.
Spread(a, b) == {p \in a : Get(b, p[1]) = {}} \cup b

\* Math.pow(base, exp) for a natural exponent.
RECURSIVE Pow(_, _)
Pow(base, exp) == IF exp = 0 THEN 1 ELSE base * Pow(base, exp - 1)

\* response.json(): the parsed body, or {} (undefined) when parsing throws.
JsonParse(body) ==
    CASE body = BodyErrorJson -> {{<<"error", "boom">>}}
      [] body = BodyPlainJson -> {{<<"msg", "hi">>}}
      [] OTHER -> {}

\* a <= b and a >= b for a number a and an optional number b: a comparison
\* with undefined (NaN) is false.
Le(a, b) == \E y \in b : a <= y
Ge(a, b) == \E y \in b : a >= y

\* response.ok: the status is in the range 200..299.
Ok(status) == status >= 200 /\ status <= 299

\* -------------------------------------------------------------- the errors
\* rest.ts:14-22.  The class sets no name, so error.name is Error.prototype's.
RestAPIError(message, status, responseData) ==
    [cls |-> "RestAPIError", name |-> "Error", message |-> message,
     status |-> {status}, responseData |-> responseData, value |-> {}]

\* rest.ts:24-30.
RestAPIConnectionError(message) ==
    [cls |-> "RestAPIConnectionError", name |-> "Error", message |-> message,
     status |-> {}, responseData |-> {}, value |-> {}]

\* rest.ts:237  new Error("Internal Error - failed to complete any retry").
InternalError ==
    [cls |-> "Error", name |-> "Error",
     message |-> "Internal Error - failed to complete any retry",
     status |-> {}, responseData |-> {}, value |-> {}]

\* What the transport rejects with when the controller aborts: a DOMException
\* named AbortError.
AbortError ==
    [cls |-> "DOMException", name |-> "AbortError", message |-> "aborted",
     status |-> {}, responseData |-> {}, value |-> {}]

\* What the transport rejects with on a network failure: a TypeError.
NetworkError ==
    [cls |-> "TypeError", name |-> "TypeError", message |-> "fetch failed",
     status |-> {}, responseData |-> {}, value |-> {}]

\* A value returned by fetch (rest.ts:201, 203).
Returned(obj) ==
    [cls |-> "ApiResponse", name |-> "", message |-> "",
     status |-> {}, responseData |-> {}, value |-> {obj}]

VARIABLES
    client,       \* the class that was constructed: RestClient or PupRestClient
    token,        \* RestClient.token
    thisRetries,  \* RestClient.retries, an optional number
    callers,      \* the calls that are made on the client
    call,         \* per call: the locals of fetch and what it has done so far
    aborted,      \* PupRestClient.aborted
    sockets,      \* every WebSocket the supervisor created, in creation order
    websocket,    \* PupRestClient.websocket: an index of sockets, 0 if undefined
    intervals,    \* the number of setInterval timers scheduled (none is cleared)
    lastConnect,  \* what the last call of connect() did
    listeners,    \* PupRestClient.events: event type -> handlers in order
    closedIn,     \* the supervisor's state when close() was first called, or ""
    last          \* the last on, off, message or close: its arguments and calls

restVars == <<client, token, thisRetries, callers, call>>
streamVars ==
    <<aborted, sockets, websocket, intervals, lastConnect, listeners,
      closedIn, last>>
vars == <<restVars, streamVars>>

\* ----------------------------------------------------- RestClient.fetch
\* The Authorization header the engine puts in (rest.ts:162).
BearerStale(tok) == <<"Bearer", InitialToken>>
Bearer(tok) == <<"Bearer", tok>>

\* rest.ts:161-164: the bearer header first, the caller's headers spread after.
BuildHeaders(tok, optHeaders) ==
    Spread({<<"Authorization", Bearer(tok)>>}, optHeaders)

\* rest.ts:228: initialRetryDelay * Math.pow(2, retries).
DelayConstant(initialRetryDelay, retries) == initialRetryDelay
Delay(initialRetryDelay, retries) == initialRetryDelay * Pow(2, retries)

\* error.responseData?.error is truthy (rest.ts:215).
HasResponseDataError(error) ==
    \E d \in error.responseData : Get(d, "error") \notin {{}, {""}}

\* error.status is truthy (rest.ts:219).
HasStatus(error) == error.status \notin {{}, {0}}

\* rest.ts:207-225: what the catch block throws, as an optional value; {} when
\* it throws nothing and goes on to the backoff.
CatchThrows(error, retries) ==
    IF Ge(retries, thisRetries)
    THEN IF error.name = "RestApiError" THEN {error}
         ELSE IF error.name = "AbortError"
         THEN {RestAPIConnectionError("connection refused")}
         ELSE IF HasResponseDataError(error)
         THEN {RestAPIConnectionError("retries exhausted, response data")}
         ELSE IF HasStatus(error)
         THEN {RestAPIConnectionError("retries exhausted, response status")}
         ELSE {}
    ELSE {}

\* A call that has not been made.
IdleCall ==
    [pc |-> "idle", retries |-> 0, timeoutTimer |-> FALSE, headers |-> {},
     optHeaders |-> {}, initialRetryDelay |-> DefaultInitialRetryDelay,
     response |-> {}, delay |-> 0, outcome |-> {},
     sent |-> <<>>, fails |-> <<>>, delays |-> <<>>]

\* rest.ts:158-178: the loop condition and, when it holds, the attempt up to
\* the await of the transport; rest.ts:237 when it does not.
LoopHeadStrict(s) ==
    IF \E n \in thisRetries : s.retries < n
    THEN LET headers == BuildHeaders(token, s.optHeaders)
         IN [s EXCEPT !.pc = "fetching",
                      !.headers = headers,
                      !.timeoutTimer = TRUE,
                      !.response = {},
                      !.sent = Append(@, Get(headers, "Authorization"))]
    ELSE [s EXCEPT !.pc = "raised", !.outcome = {InternalError}]
LoopHead(s) ==
    IF Le(s.retries, thisRetries)
    THEN LET headers == BuildHeaders(token, s.optHeaders)
         IN [s EXCEPT !.pc = "fetching",
                      !.headers = headers,
                      !.timeoutTimer = TRUE,
                      !.response = {},
                      !.sent = Append(@, Get(headers, "Authorization"))]
    ELSE [s EXCEPT !.pc = "raised", !.outcome = {InternalError}]

\* rest.ts:205-234: the catch block entered with error, and the finally block
\* when the catch block throws.  kind records what failed the attempt.
CatchRetriesAtOnce(s, error, kind) ==
    [s EXCEPT !.pc = "fetching", !.timeoutTimer = TRUE, !.response = {}]
Catch(s, error, kind) ==
    LET thrown == CatchThrows(error, s.retries)
        t == [s EXCEPT !.fails = Append(@, kind)]
    IN IF thrown # {}
       THEN [t EXCEPT !.pc = "raised", !.outcome = thrown,
                      !.timeoutTimer = FALSE]
       ELSE [t EXCEPT !.pc = "backoff",
                      !.delay = Delay(s.initialRetryDelay, s.retries)]

\* rest.ts:199-204 and the finally block: the parsed body, or {} when the body
\* is empty or cannot be parsed.
ReadOkBodyThrowing(s) ==
    LET data == JsonParse((CHOOSE r \in s.response : TRUE).body)
    IN IF data = {}
       THEN Catch(s, NetworkError, "parse")
       ELSE [s EXCEPT !.pc = "returned", !.timeoutTimer = FALSE,
                      !.outcome = {Returned(CHOOSE d \in data : TRUE)}]
ReadOkBodyStep(s) ==
    LET data == JsonParse((CHOOSE r \in s.response : TRUE).body)
        obj == IF data = {} THEN EmptyObject ELSE CHOOSE d \in data : TRUE
    IN [s EXCEPT !.pc = "returned", !.timeoutTimer = FALSE,
                 !.outcome = {Returned(obj)}, !.fails = Append(@, "ok")]

\* get/post/put/delete -> fetch(path, options, initialRetryDelay), up to the
\* first await.
CallFetch(c, optHeaders, initialRetryDelay) ==
    /\ c \in callers
    /\ call[c].pc = "idle"
    /\ call' = [call EXCEPT ![c] =
                  LoopHead([@ EXCEPT !.optHeaders = optHeaders,
                                     !.initialRetryDelay = initialRetryDelay])]
    /\ UNCHANGED <<client, token, thisRetries, callers, streamVars>>

\* rest.ts:174-183: the transport resolves with a response; the timer is
\* cleared; the body is read next.
Respond(c, status, body) ==
    /\ call[c].pc = "fetching"
    /\ call' = [call EXCEPT ![c] =
                  [@ EXCEPT !.timeoutTimer = FALSE,
                            !.response = {[status |-> status, body |-> body]},
                            !.pc = IF Ok(status) THEN "okbody" ELSE "errbody"]]
    /\ UNCHANGED <<client, token, thisRetries, callers, streamVars>>

\* rest.ts:184-197: the error body is read and RestAPIError is thrown into the
\* catch block.
ReadErrorBody(c) ==
    /\ call[c].pc = "errbody"
    /\ LET r == CHOOSE r \in call[c].response : TRUE
       IN call' = [call EXCEPT ![c] =
                     Catch(@, RestAPIError("Request failed", r.status,
                                           JsonParse(r.body)), "http")]
    /\ UNCHANGED <<client, token, thisRetries, callers, streamVars>>

\* rest.ts:199-204.
ReadOkBody(c) ==
    /\ call[c].pc = "okbody"
    /\ call' = [call EXCEPT ![c] = ReadOkBodyStep(@)]
    /\ UNCHANGED <<client, token, thisRetries, callers, streamVars>>

\* rest.ts:168-171: the timeout timer fires while the transport is pending:
\* controller.abort() makes the transport reject with AbortError.
TimeoutFiresShared(c) ==
    /\ call[c].pc = "fetching"
    /\ call[c].timeoutTimer
    /\ call' = [d \in Calls |->
                  IF call[d].pc = "fetching"
                  THEN Catch([call[d] EXCEPT !.timeoutTimer = FALSE],
                             AbortError, "timeout")
                  ELSE call[d]]
    /\ UNCHANGED <<client, token, thisRetries, callers, streamVars>>
TimeoutFires(c) ==
    /\ call[c].pc = "fetching"
    /\ call[c].timeoutTimer
    /\ call' = [call EXCEPT ![c] =
                  Catch([@ EXCEPT !.timeoutTimer = FALSE], AbortError, "timeout")]
    /\ UNCHANGED <<client, token, thisRetries, callers, streamVars>>

\* The transport rejects (network failure).  Line 181 is skipped: the timer
\* stays armed until the finally block.
NetworkFailure(c) ==
    /\ call[c].pc = "fetching"
    /\ call' = [call EXCEPT ![c] = Catch(@, NetworkError, "network")]
    /\ UNCHANGED <<client, token, thisRetries, callers, streamVars>>

\* The timeout timer fires while the call waits in the backoff: abort() of a
\* settled request does nothing.
TimeoutFiresLate(c) ==
    /\ call[c].pc = "backoff"
    /\ call[c].timeoutTimer
    /\ call' = [call EXCEPT ![c] = [@ EXCEPT !.timeoutTimer = FALSE]]
    /\ UNCHANGED <<client, token, thisRetries, callers, streamVars>>

\* rest.ts:229-235: the backoff timer fires; retries++; the finally block
\* clears the timer; the loop condition is evaluated again.
BackoffFires(c) ==
    /\ call[c].pc = "backoff"
    /\ call' = [call EXCEPT ![c] =
                  LoopHead([@ EXCEPT !.delays = Append(@, call[c].delay),
                                     !.retries = @ + 1,
                                     !.timeoutTimer = FALSE])]
    /\ UNCHANGED <<client, token, thisRetries, callers, streamVars>>

\* rest.ts:56-58.
RefreshApiToken(t) ==
    /\ token' = t
    /\ UNCHANGED <<client, thisRetries, callers, call, streamVars>>

\* The headers a caller passes in options.headers.
CallerHeaders ==
    { {}, {<<"Content-Type", "application/json">>},
      {<<"Authorization", <<"Basic", "caller">>>>} }

\* ------------------------------------------- the event stream supervisor
\* Largest number of WebSockets created in one run.
MaxSockets == 3

\* Largest number of reconnect timers scheduled in one run.
MaxIntervals == 3

\* Largest number of handlers registered for one event type.
MaxListeners == 2

\* part_002:194  the period of the reconnect timer, in ms.
ReconnectInterval == 2500

EventTypes == {"log"}
Handlers == {"h1", "h2"}

\* The frames a server sends: an event, an event without payload, a payload
\* without event type, and text that is not JSON.
FrameEvent == "{\"t\":\"log\",\"d\":\"line\"}"
FrameNoPayload == "{\"t\":\"log\"}"
FrameNoType == "{\"d\":\"line\"}"
FrameGarbage == "not json"
Frames == {FrameEvent, FrameNoPayload, FrameNoType, FrameGarbage}

\* part_002:182-184: JSON.parse of the decoded frame, {} when it throws.
FrameParse(frame) ==
    CASE frame = FrameEvent -> {{<<"t", "log">>, <<"d", "line">>}}
      [] frame = FrameNoPayload -> {{<<"t", "log">>}}
      [] frame = FrameNoType -> {{<<"d", "line">>}}
      [] OTHER -> {}

\* No on, off, message or close yet.
NoOp ==
    [op |-> "none", event |-> {}, fn |-> {}, frame |-> {}, emitted |-> {},
     calls |-> <<>>]

\* The supervisor's state, in the words of the state machine it implements.
SupervisorState ==
    IF aborted THEN "Aborted"
    ELSE IF websocket = 0 THEN "Disconnected"
    ELSE CASE sockets[websocket].readyState = "CONNECTING" -> "Connecting"
           [] sockets[websocket].readyState = "OPEN" -> "Connected"
           [] OTHER -> "Disconnected"

\* part_002:175-179: a WebSocket just created.
NewSocket == [readyState |-> "CONNECTING", opened |-> FALSE]

\* part_002:174: connect() creates a connection only when not aborted.
ConnectAlways(isAborted) == TRUE
ConnectInverted(isAborted) == isAborted
ConnectAllowed(isAborted) == ~isAborted

\* part_002:173-198: one call of connect().
Connect ==
    IF ConnectAllowed(aborted)
    THEN /\ Len(sockets) < MaxSockets
         /\ sockets' = Append(sockets, NewSocket)
         /\ websocket' = Len(sockets) + 1
         /\ lastConnect' = "created"
    ELSE /\ lastConnect' = "skipped"
         /\ UNCHANGED <<sockets, websocket>>

\* The handshake of connection i completes.
SocketOpens(i) ==
    /\ i \in DOMAIN sockets
    /\ sockets[i].readyState = "CONNECTING"
    /\ sockets' = [sockets EXCEPT ![i] = [readyState |-> "OPEN", opened |-> TRUE]]
    /\ UNCHANGED <<restVars, aborted, websocket, intervals, lastConnect, listeners,
                   closedIn, last>>

\* part_002:190-196: connection i closes (the server or the network ended it,
\* the handshake failed, or a close() completed) and its close handler runs.
SocketCloses(i) ==
    /\ i \in DOMAIN sockets
    /\ sockets[i].readyState # "CLOSED"
    /\ sockets' = [sockets EXCEPT ![i].readyState = "CLOSED"]
    /\ IF ~aborted
       THEN /\ intervals < MaxIntervals
            /\ intervals' = intervals + 1
       ELSE UNCHANGED intervals
    /\ UNCHANGED <<restVars, aborted, websocket, lastConnect, listeners,
                   closedIn, last>>

\* part_002:192-194: one of the scheduled timers fires (each fires every
\* ReconnectInterval ms, again and again) and calls connect().
IntervalFires ==
    /\ intervals > 0
    /\ Connect
    /\ UNCHANGED <<restVars, aborted, intervals, listeners, closedIn, last>>

\* events.emit(eventType, payload), both optional values: the calls made, one
\* per registration of that type, in registration order, each with the payload.
Emit(eventType, payload) ==
    LET handlers == IF \E t \in eventType : t \in EventTypes
                    THEN listeners[CHOOSE t \in eventType : TRUE]
                    ELSE <<>>
    IN [i \in 1..Len(handlers) |-> <<handlers[i], payload>>]

\* part_002:180-189: the message handler of connection i is given a frame.
\* A frame that does not parse is logged and dropped; any other is emitted as
\* (data.t, data.d).
OnMessageSwapped(frame) ==
    LET data == FrameParse(frame)
    IN IF data = {}
       THEN [NoOp EXCEPT !.op = "message", !.frame = {frame}]
       ELSE LET d == CHOOSE x \in data : TRUE
            IN [NoOp EXCEPT !.op = "message", !.frame = {frame},
                            !.emitted = {<<Get(d, "d"), Get(d, "t")>>},
                            !.calls = Emit(Get(d, "d"), Get(d, "t"))]
OnMessage(frame) ==
    LET data == FrameParse(frame)
    IN IF data = {}
       THEN [NoOp EXCEPT !.op = "message", !.frame = {frame}]
       ELSE LET d == CHOOSE x \in data : TRUE
            IN [NoOp EXCEPT !.op = "message", !.frame = {frame},
                            !.emitted = {<<Get(d, "t"), Get(d, "d")>>},
                            !.calls = Emit(Get(d, "t"), Get(d, "d"))]

Message(i, frame) ==
    /\ i \in DOMAIN sockets
    /\ sockets[i].readyState = "OPEN"
    /\ last' = OnMessage(frame)
    /\ UNCHANGED <<restVars, aborted, sockets, websocket, intervals, lastConnect,
                   listeners, closedIn>>

\* part_002:202-204: events.on(event, fn) appends the handler.
On(event, fn) ==
    /\ Len(listeners[event]) < MaxListeners
    /\ listeners' = [listeners EXCEPT ![event] = Append(@, fn)]
    /\ last' = [NoOp EXCEPT !.op = "on", !.event = {event}, !.fn = {fn}]
    /\ UNCHANGED <<restVars, aborted, sockets, websocket, intervals, lastConnect,
                   closedIn>>

\* The sequence seq without its first entry equal to x.
RECURSIVE RemoveFirst(_, _)
RemoveFirst(seq, x) ==
    IF seq = <<>> THEN <<>>
    ELSE IF Head(seq) = x THEN Tail(seq)
    ELSE <<Head(seq)>> \o RemoveFirst(Tail(seq), x)

\* part_002:206-208: events.off(event, fn) removes the handler.
Off(event, fn) ==
    /\ listeners' = [listeners EXCEPT ![event] = RemoveFirst(@, fn)]
    /\ last' = [NoOp EXCEPT !.op = "off", !.event = {event}, !.fn = {fn}]
    /\ UNCHANGED <<restVars, aborted, sockets, websocket, intervals, lastConnect,
                   closedIn>>

\* part_002:210-214: close().
Close ==
    /\ aborted' = TRUE
    /\ listeners' = [e \in EventTypes |-> <<>>]
    /\ sockets' = IF websocket # 0
                     /\ sockets[websocket].readyState \in {"CONNECTING", "OPEN"}
                  THEN [sockets EXCEPT ![websocket].readyState = "CLOSING"]
                  ELSE sockets
    /\ closedIn' = IF closedIn = "" THEN SupervisorState ELSE closedIn
    /\ last' = [NoOp EXCEPT !.op = "close"]
    /\ UNCHANGED <<restVars, websocket, intervals, lastConnect>>

\* ------------------------------------------------------ the specifications
\* rest.ts:38-48: new RestClient(baseUrl, token, requestTimeoutMs, retries),
\* before any call.
RestInit ==
    /\ client = "RestClient"
    /\ token = InitialToken
    /\ thisRetries \in {{n} : n \in 0..MaxRetries}
    /\ call = [c \in Calls |-> IdleCall]

\* part_002:34-39: new PupRestClient(baseUrl, token, eventStream) calls
\* super(baseUrl, token): requestTimeoutMs and retries are left undefined.
PupRestInit ==
    /\ client = "PupRestClient"
    /\ token = InitialToken
    /\ thisRetries = {}
    /\ call = [c \in Calls |-> IdleCall]

\* part_002:23-25, 34-43 with eventStream = false: no connection is made.
NoStream ==
    /\ aborted = FALSE
    /\ sockets = <<>>
    /\ websocket = 0
    /\ intervals = 0
    /\ lastConnect = "none"
    /\ listeners = [e \in EventTypes |-> <<>>]
    /\ closedIn = ""
    /\ last = NoOp

\* part_002:34-43 with eventStream = true: setupEventStream() has called
\* connect() once.
WithStream ==
    /\ aborted = FALSE
    /\ sockets = <<NewSocket>>
    /\ websocket = 1
    /\ intervals = 0
    /\ lastConnect = "created"
    /\ listeners = [e \in EventTypes |-> <<>>]
    /\ closedIn = ""
    /\ last = NoOp

\* The request engine: one fetch call on a client.
Init ==
    /\ RestInit
    /\ callers = {1}
    /\ NoStream

Next ==
    \/ \E c \in Calls, h \in CallerHeaders, d \in InitialRetryDelays :
          CallFetch(c, h, d)
    \/ \E c \in Calls, st \in Statuses, b \in Bodies : Respond(c, st, b)
    \/ \E c \in Calls : ReadErrorBody(c)
    \/ \E c \in Calls : ReadOkBody(c)
    \/ \E c \in Calls : TimeoutFires(c)
    \/ \E c \in Calls : NetworkFailure(c)
    \/ \E c \in Calls : TimeoutFiresLate(c)
    \/ \E c \in Calls : BackoffFires(c)
    \/ \E t \in Tokens : RefreshApiToken(t)

Spec == Init /\ [][Next]_vars

\* rest.ts:174-178: the await of the transport ends: a response arrives, the
\* transport rejects, or the timeout timer aborts it.
Settle(c) ==
    \/ \E st \in Statuses, b \in Bodies : Respond(c, st, b)
    \/ TimeoutFires(c)
    \/ NetworkFailure(c)

\* The request engine with its awaits: a pending transport call settles, the
\* body of a response that arrived is read (rest.ts:188, 201), and a backoff
\* timer that was set fires (rest.ts:229).
FairSpec ==
    /\ Spec
    /\ \A c \in Calls :
          /\ WF_vars(Settle(c))
          /\ WF_vars(ReadErrorBody(c) \/ ReadOkBody(c))
          /\ WF_vars(BackoffFires(c))

\* Largest retry budget of the client on which two calls overlap.
OverlapRetries == 1

\* Two verb calls on one RestClient: each is a call of fetch with its own
\* locals (rest.ts:156-157, 167), and their awaits interleave in any order.
OverlapInit ==
    /\ client = "RestClient"
    /\ token = InitialToken
    /\ thisRetries \in {{n} : n \in 0..OverlapRetries}
    /\ call = [c \in Calls |-> IdleCall]
    /\ callers = Calls
    /\ NoStream

OverlapNext ==
    \/ \E c \in Calls : CallFetch(c, {}, DefaultInitialRetryDelay)
    \/ \E c \in Calls, st \in Statuses : Respond(c, st, BodyEmpty)
    \/ \E c \in Calls : ReadErrorBody(c)
    \/ \E c \in Calls : ReadOkBody(c)
    \/ \E c \in Calls : TimeoutFires(c)
    \/ \E c \in Calls : NetworkFailure(c)
    \/ \E c \in Calls : TimeoutFiresLate(c)
    \/ \E c \in Calls : BackoffFires(c)
    \/ \E t \in Tokens : RefreshApiToken(t)

OverlapSpec == OverlapInit /\ [][OverlapNext]_vars

\* The event stream supervisor of a PupRestClient, with or without the stream.
StreamInit ==
    /\ PupRestInit
    /\ callers = {}
    /\ (NoStream \/ WithStream)

StreamNext ==
    \/ \E i \in 1..MaxSockets : SocketOpens(i)
    \/ \E i \in 1..MaxSockets : SocketCloses(i)
    \/ IntervalFires
    \/ \E i \in 1..MaxSockets, f \in Frames : Message(i, f)
    \/ \E e \in EventTypes, h \in Handlers : On(e, h)
    \/ \E e \in EventTypes, h \in Handlers : Off(e, h)
    \/ Close

StreamSpec == StreamInit /\ [][StreamNext]_vars

\* The supervisor with its timers: a scheduled reconnect timer fires every
\* ReconnectInterval ms, so a tick that is due is not postponed for ever.
StreamFairSpec == StreamSpec /\ WF_vars(IntervalFires)

\* The request engine of a client built by either constructor.
ClientInit ==
    /\ (RestInit \/ PupRestInit)
    /\ callers = {1}
    /\ NoStream

ClientSpec == ClientInit /\ [][Next]_vars

\* ======================================================== the claims
\* The last entry of a non-empty sequence.
Last(seq) == seq[Len(seq)]

\* The call has returned or raised.
Finished(s) == s.pc \in {"returned", "raised"}

\* C1: with retry budget n = this.retries, a fetch call whose transport failed
\* on every attempt without a response (timeout or network failure) has made
\* exactly n + 1 transport attempts and has raised RestAPIConnectionError.
C1_AlwaysFailingRaisesConnectionError ==
    \A c \in Calls :
        LET s == call[c]
        IN (/\ Finished(s)
            /\ s.fails # <<>>
            /\ \A i \in DOMAIN s.fails : s.fails[i] \in {"timeout", "network"})
           => /\ thisRetries = {Len(s.sent) - 1}
              /\ \E e \in s.outcome : e.cls = "RestAPIConnectionError"

\* C2: when the final attempt received a non-2xx response, the call raises the
\* RestAPIError itself, with the response's status and the parsed error body
\* (absent when the body cannot be parsed).
C2_FinalNon2xxRaisesRestAPIError ==
    \A c \in Calls :
        LET s == call[c]
        IN (s.pc = "raised" /\ s.fails # <<>> /\ Last(s.fails) = "http")
           => \E e \in s.outcome, r \in s.response :
                 /\ e.cls = "RestAPIError"
                 /\ e.status = {r.status}
                 /\ e.responseData = JsonParse(r.body)

\* C3: every finished call has returned an envelope, raised RestAPIError or
\* raised RestAPIConnectionError; the generic internal error is never raised.
C3_ThreeOutcomesOnly ==
    \A c \in Calls :
        Finished(call[c])
        => \E e \in call[c].outcome :
              e.cls \in {"ApiResponse", "RestAPIError", "RestAPIConnectionError"}

\* C4: the backoff waited between attempt i and attempt i+1 (i counted from 0)
\* is initialRetryDelay * 2^i, for every attempt that is followed by another.
C4_BackoffDoubles ==
    \A c \in Calls :
        LET s == call[c]
        IN /\ Len(s.delays) >= Len(s.sent) - 1
           /\ \A i \in 0..(Len(s.sent) - 2) :
                 s.delays[i + 1] = s.initialRetryDelay * 2^i

\* C4 witness: a third attempt is in flight after backoffs of 200 and 400 ms.
C4_Witness ==
    \E c \in Calls :
        /\ call[c].pc = "fetching"
        /\ Len(call[c].sent) = 3
        /\ call[c].delays = <<200, 400>>

\* C5: an attempt whose timer fired before a response is handled exactly as
\* one whose transport failed: a non-final attempt goes to the backoff, the
\* final attempt raises the same terminal error at once; and a call returns
\* only from an attempt that got its response before the timer fired.
C5_TimeoutLikeNetworkFailure ==
    \A c \in Calls :
        LET s == call[c]
            n == Len(s.fails)
        IN /\ s.pc = "returned" => (n > 0 /\ s.fails[n] = "ok")
           /\ (n > 0 /\ n = Len(s.sent) /\ s.fails[n] \in {"timeout", "network"})
              => IF \E m \in thisRetries : n - 1 < m
                 THEN s.pc = "backoff" /\ s.outcome = {}
                 ELSE /\ s.pc = "raised"
                      /\ s.outcome = {RestAPIConnectionError("connection refused")}

\* C6: every attempt carries Authorization: Bearer <a token of the client>,
\* whatever headers the caller supplied, an Authorization key included.
C6_AuthorizationAlwaysEngineBearer ==
    \A c \in Calls :
        \A i \in DOMAIN call[c].sent :
            \E t \in Tokens : call[c].sent[i] = {<<"Bearer", t>>}

C8_EmptyOkBodyReturnsEmptyEnvelope ==
    [][\A c \in Calls :
          LET s == call[c]
              s2 == call'[c]
          IN /\ (s.pc = "fetching" /\ s2.pc = "okbody")
                <=> (s.pc = "fetching" /\ \E r \in s2.response : Ok(r.status))
             /\ (s.pc = "okbody" /\ s2 # s)
                => /\ s2.pc = "returned"
                   /\ s2.retries = s.retries
                   /\ s2.sent = s.sent
                   /\ s2.delays = s.delays
                   /\ \A r \in s.response :
                         JsonParse(r.body) = {}
                         => s2.outcome = {Returned(EmptyObject)}]_vars

\* C8 witness: a retried call has returned the empty envelope for a 2xx
\* response with an empty body.
C8_Witness ==
    \E c \in Calls :
        /\ call[c].pc = "returned"
        /\ call[c].retries = 1
        /\ \E r \in call[c].response : Ok(r.status) /\ r.body = BodyEmpty
        /\ call[c].outcome = {Returned(EmptyObject)}

\* C9: while the client is not aborted and no reconnect has completed (no
\* connection made by a reconnect has opened), at most one reconnect timer is
\* scheduled, however many close events have fired.
C9_AtMostOneReconnectPending ==
    (~aborted /\ \A i \in 2..Len(sockets) : ~sockets[i].opened)
    => intervals <= 1

\* C10: once close() has been called the client stays aborted and no WebSocket
\* is created any more, whether a close event arrives or a scheduled reconnect
\* timer fires.
C10_AbortedIsTerminal ==
    [][aborted => /\ aborted'
                  /\ Len(sockets') = Len(sockets)
                  /\ websocket' = websocket
                  /\ intervals' = intervals]_vars

\* C10 witness: after close(), a connection has closed and a reconnect timer
\* scheduled before close() has fired, and connect() created nothing.
C10_Witness ==
    /\ aborted
    /\ intervals >= 1
    /\ lastConnect = "skipped"
    /\ \A i \in DOMAIN sockets : sockets[i].readyState = "CLOSED"

\* The entries of a sequence.
Range(seq) == {seq[i] : i \in DOMAIN seq}

\* C11: if close() was called while the supervisor was Connecting, then from
\* then on no connection becomes open, no connection is created and no
\* reconnect is scheduled.
C11_CloseWhileConnectingStopsSupervisor ==
    [][closedIn = "Connecting"
       => /\ \A i \in DOMAIN sockets :
                sockets'[i].readyState = "OPEN" => sockets[i].readyState = "OPEN"
          /\ Len(sockets') = Len(sockets)
          /\ intervals' = intervals]_vars

\* A frame that is not JSON or lacks the event type t or the payload d.
Malformed(frame) ==
    \/ FrameParse(frame) = {}
    \/ \E d \in FrameParse(frame) : Get(d, "t") = {} \/ Get(d, "d") = {}

\* C12: a frame that is not JSON, or lacks t or d, is dropped: no handler of
\* the event emitter is called for it.
C12_MalformedFramesDropped ==
    (last.op = "message" /\ \E f \in last.frame : Malformed(f))
    => last.calls = <<>>

\* C13: after an unexpected close while not aborted (a reconnect timer is
\* scheduled), a new connection is eventually created unless close() is
\* called first; and a connection is only ever created by a timer that fires
\* while the client is not aborted.
C13_ReconnectsAfterUnexpectedClose ==
    /\ \A n \in 0..(MaxSockets - 1) :
          (~aborted /\ intervals > 0 /\ Len(sockets) = n)
          ~> (aborted \/ Len(sockets) > n)
    /\ [][Len(sockets') > Len(sockets)
          => (~aborted /\ intervals > 0 /\ Len(sockets') = Len(sockets) + 1)]_vars

\* C13 witness: the first connection has closed, and the connection made by
\* the reconnect is open and is the current one.
C13_Witness ==
    /\ ~aborted
    /\ Len(sockets) = 2
    /\ sockets[1].readyState = "CLOSED"
    /\ sockets[2].readyState = "OPEN"
    /\ websocket = 2

\* What an event of type "log" with payload "line" must call, given the
\* handlers registered: each registration once, in order, with the payload.
ExpectedCalls ==
    [i \in DOMAIN listeners["log"] |-> <<listeners["log"][i], {"line"}>>]

\* C14 as claimed: a decoded event calls every registration in order with the
\* payload, and after off(type, h) the handler h is not registered any more.
C14_OffSilencesHandler ==
    /\ (last.op = "message" /\ last.frame = {FrameEvent})
       => last.calls = ExpectedCalls
    /\ last.op = "off"
       => \A e \in last.event, h \in last.fn : h \notin Range(listeners[e])

\* C14 amended: a decoded event calls every registration in order with the
\* payload; off(type, h) removes the first registration of h and leaves the
\* others in their order (h goes on firing if it was registered more than
\* once); off for a handler that is not registered changes nothing.
C14_OffRemovesOneRegistration ==
    /\ []((last.op = "message" /\ last.frame = {FrameEvent})
          => last.calls = ExpectedCalls)
    /\ [][(last'.op = "off" /\ (last' # last \/ listeners' # listeners))
          => \A e \in last'.event, h \in last'.fn :
                LET before == listeners[e]
                    after == listeners'[e]
                IN /\ \A x \in EventTypes \ {e} : listeners'[x] = listeners[x]
                   /\ IF h \notin Range(before)
                      THEN after = before
                      ELSE \E k \in DOMAIN before :
                              /\ before[k] = h
                              /\ \A j \in 1..(k - 1) : before[j] # h
                              /\ after = SubSeq(before, 1, k - 1)
                                         \o SubSeq(before, k + 1, Len(before))]_vars

\* C14 witness: an event was delivered to two handlers in registration order.
C14_Witness ==
    /\ last.op = "message"
    /\ last.frame = {FrameEvent}
    /\ last.calls = << <<"h2", {"line"}>>, <<"h1", {"line"}>> >>

\* C15: whenever a call has no transport request in flight, its timeout timer
\* is not armed.
C15_NoTimerOutsideAttempt ==
    \A c \in Calls : call[c].pc # "fetching" => ~call[c].timeoutTimer

\* C16: with budget n, attempts are numbered 0..n: at most n + 1 are made; a
\* failed attempt i < n leaves the call waiting in backoff, and the backoff
\* ends in attempt i + 1; a 2xx response is the last attempt and ends the call.
C16_AttemptsWithinBudget ==
    /\ [](\A c \in Calls :
            LET s == call[c]
                k == Len(s.fails)
            IN /\ \A n \in thisRetries : Len(s.sent) <= n + 1
               /\ s.pc \in {"fetching", "okbody", "errbody"}
                  => Len(s.sent) = s.retries + 1 /\ k = s.retries
               /\ (k > 0 /\ k = Len(s.sent) /\ s.fails[k] # "ok"
                   /\ \E n \in thisRetries : k - 1 < n)
                  => s.pc = "backoff" /\ s.retries = k - 1
               /\ \A i \in DOMAIN s.fails :
                     s.fails[i] = "ok" => i = k /\ s.pc = "returned")
    /\ [][\A c \in Calls :
             LET s == call[c]
                 s2 == call'[c]
             IN /\ (s.pc = "backoff" /\ s2.pc # "backoff"
                    /\ \E n \in thisRetries : s.retries < n)
                   => /\ s2.pc = "fetching"
                      /\ s2.retries = s.retries + 1
                      /\ Len(s2.sent) = Len(s.sent) + 1
                /\ s.pc = "okbody" => s2.pc \in {"okbody", "returned"}
                /\ Finished(s) => s2 = s]_vars

\* C16 witness: with budget 2, the third attempt follows two failed ones and
\* its 2xx response ends the call.
C16_Witness ==
    \E c \in Calls :
        /\ thisRetries = {2}
        /\ call[c].pc = "returned"
        /\ Len(call[c].sent) = 3
        /\ call[c].fails = <<"http", "network", "ok">>

\* C17: after close() has been called no reconnect timer of the supervisor
\* remains scheduled.
C17_CloseCancelsReconnect ==
    aborted => intervals = 0

\* The connections that are connecting or open.
Live == {i \in DOMAIN sockets : sockets[i].readyState \in {"CONNECTING", "OPEN"}}

\* C18: at most one connection created by the supervisor is connecting or
\* open at any time.
C18_AtMostOneLiveConnection ==
    Cardinality(Live) <= 1

\* C19: after close() every connection the supervisor ever created is closed
\* or closing.
C19_CloseClosesEveryConnection ==
    aborted => Live = {}

\* C20: a verb call on a client built by the PupRestClient constructor makes
\* at least one transport attempt before it returns or raises.
C20_PupClientCallsAttempt ==
    \A c \in Calls :
        (client = "PupRestClient" /\ Finished(call[c]))
        => Len(call[c].sent) >= 1

\* C21: a call waits in a backoff only after an attempt that was not its last:
\* when the attempt with index this.retries fails, no backoff delay is waited.
C21_NoBackoffAfterFinalAttempt ==
    \A c \in Calls :
        call[c].pc = "backoff" => \E n \in thisRetries : call[c].retries < n

C23_OverlappingCallsIndependent ==
    /\ [](\A c \in Calls :
            LET s == call[c]
            IN /\ s.retries = Len(s.delays)
               /\ s.pc \in {"fetching", "okbody", "errbody"}
                  => Len(s.sent) = s.retries + 1 /\ Len(s.fails) = s.retries
               /\ s.pc = "raised"
                  => \A n \in thisRetries :
                        Len(s.sent) = n + 1 /\ Len(s.fails) = n + 1)
    /\ [][/\ \A c, d \in Calls :
               (c # d /\ call'[c] # call[c]) => call'[d] = call[d]
          /\ token' # token => call' = call
          /\ thisRetries' = thisRetries]_vars

\* C23 witness: both calls have a request in flight; the first was aborted by
\* its timeout once and is in its second attempt, the second is still in its
\* first attempt.
C23_Witness ==
    /\ call[1].pc = "fetching"
    /\ call[1].fails = <<"timeout">>
    /\ call[1].retries = 1
    /\ call[2].pc = "fetching"
    /\ call[2].retries = 0
    /\ call[2].timeoutTimer

====
